---- MODULE Spec2Model ----
(***************************************************************************)
(* WebSocket session lifecycle of the eye tracking backend.                *)
(*                                                                         *)
(* Two servers share one design: src/app.py (aiohttp, simulated data) and  *)
(* src/eye_gaze.py (websockets, live camera).  One EyeTracker object owns  *)
(* connected_clients and is_running; every connection runs one handler     *)
(* coroutine on a single asyncio event loop.  A step of the model is the   *)
(* code a coroutine runs between two suspension points (await), or one act *)
(* of a client (connect is part of the handler's start).                   *)
(***************************************************************************)
EXTENDS Naturals, Integers, Sequences, FiniteSets, TLC

\* ---------------------------------------------------------------- bounds
\* connections that may be attempted
NumConns == 2
\* text messages all clients together may send
MaxSends == 3
\* messages a client may have queued, unread by the server
MaxInbox == 2
\* outbound messages per connection that are recorded (the first MaxOut)
MaxOut == 3
\* eye_data messages counted after a pending stop_tracking (saturating)
MaxCount == 3

\* largest capacity the server is configured with
MaxCapacity == 2
\* faces a frame may show; eyes the detector may report in one face
MaxFaces == 1
MaxEyes == 3

\* -------------------------------------------------------------- constants
\* WebSocket close code of a capacity refusal
CLOSE_TRY_AGAIN_LATER == 1013
\* ws.close(code=1013, reason="Server at capacity")
CapacityClose == [code |-> CLOSE_TRY_AGAIN_LATER, reason |-> "Server at capacity"]
NoClose == [code |-> 0, reason |-> ""]

Conns == 1..NumConns
NoConn == 0

\* inbound text payloads, by what the handler does with them:
\*   notjson   - json.loads raises JSONDecodeError
\*   nonobject - valid JSON that is no object (data.get raises AttributeError)
\*   other     - an object whose type is none of the three commands
Msgs == {"ping", "start_tracking", "stop_tracking", "other", "notjson", "nonobject"}

Variants == {"app", "eye_gaze"}

\* what the detectors find in a frame: for every face, in detection order,
\* the number of eyes found in it
Detections == UNION {[1..n -> 0..MaxEyes] : n \in 0..MaxFaces}

VARIABLES
    MAX_CONNECTIONS,    \* int(os.getenv('MAX_CONNECTIONS', 100)), set at start
    variant,            \* which server runs: src/app.py or src/eye_gaze.py
    source_ok,          \* the cascade classifiers are loaded
    connected_clients,  \* EyeTracker.connected_clients
    is_running,         \* EyeTracker.is_running (one flag for all sessions)
    pc,                 \* position of each connection's handler coroutine
    inbox,              \* messages sent by the client, not yet read
    closed,             \* the transport is closed (by the client, or lost)
    out,                \* outbound JSON messages, in send order (first MaxOut)
    close_frame,        \* close frame the server sent, NoClose if none
    emitters,           \* emission loops executing for the connection
    holder,             \* coroutine spinning without suspending, or NoConn
    nsent,              \* text messages sent by all clients so far
    read_any,           \* the inbound loop has read a message of the client
    stop_wait,          \* a stop_tracking arrived while the loop ran, still unread
    after_stop,         \* eye_data sent since stop_wait was set (up to MaxCount)
    phase,              \* parity of the eye_data messages sent (their timestamps)
    first,              \* first act of the client: "none", "ping" or "else"
    ever_member,        \* the socket was added to connected_clients at some time
    eye_data,           \* payload of the eye_data message sent last
    send_failed,        \* a send on the connection has raised
    cap,                \* the camera of the session's latest start_eye_tracking
                        \* call: none opened, open, or released
    spin,               \* parity of the frame reads that failed in a row
    shutdown            \* the server shuts down: the handler tasks are cancelled

vars == <<MAX_CONNECTIONS, variant, source_ok, connected_clients, is_running,
          pc, inbox, closed, out, close_frame, emitters, holder, nsent,
          read_any, stop_wait, after_stop, phase, first, ever_member, eye_data,
          send_failed, cap, spin, shutdown>>

\* ---------------------------------------------------------------- helpers

\* record an outbound message in the observed prefix of the stream
Obs(o, m) == IF Len(o) < MaxOut THEN Append(o, m) ELSE o

Min(a, b) == IF a <= b THEN a ELSE b

\* the payload of an eye_data message: eye_count and confidence, the latter
\* in tenths (0.8 is 8)
NoData == [eye_count |-> 0, confidence |-> 0]

\* app.py: the simulated reading
SimulatedData == [eye_count |-> 2, confidence |-> 8]

\* eye_gaze.py: min(1.0, len(eyes) / 2.0), 0.5 or 0.0
Confidence(nfaces, neyes) ==
    IF nfaces > 0 /\ neyes >= 2 THEN Min(10, (10 * neyes) \div 2)
    ELSE IF nfaces > 0 THEN 5
    ELSE 0

\* eye_gaze.py: for (x, y, w, h) in faces, from face i on; every face
\* overwrites eye_count and confidence
RECURSIVE DetectEyes(_, _, _)
DetectEyes(data, faces, i) ==
    IF i > Len(faces) THEN data
    ELSE DetectEyes([eye_count |-> faces[i],
                     confidence |-> Confidence(Len(faces), faces[i])],
                    faces, i + 1)

\* the eye_data built from one frame
LiveData(faces) == DetectEyes(NoData, faces, 1)

\* faulty capacity test: off by one
AtCapacityStrict(clients) == Cardinality(clients) > MAX_CONNECTIONS

\* faulty capacity test: every socket ever added counts, a slot is never free
\* again
AtCapacityEver(clients) ==
    Cardinality({c \in Conns : ever_member[c]}) >= MAX_CONNECTIONS

\* len(self.connected_clients) >= MAX_CONNECTIONS
AtCapacity(clients) == Cardinality(clients) >= MAX_CONNECTIONS

\* faulty welcome: nothing is sent on admission
SendWelcomeSkipped(o) == o

\* connection welcome, the first send of an admitted session
SendWelcome(o) == Obs(o, "connection")

\* a send raises when the transport is gone
SendOk(c) == ~closed[c]

\* the outcome of a send on c is remembered when it failed
SendResult(c) == [send_failed EXCEPT ![c] = @ \/ ~SendOk(c)]

\* the states of the camera handle of a call of start_eye_tracking
CapStates == {"none", "open", "released"}

\* for i in range(3): no cv2.VideoCapture(i) opens, each one is released
\* unopened and the call is left without a camera (app.py has no camera)
NoCamera(caps, c) == [caps EXCEPT ![c] = "none"]

\* cv2.VideoCapture(i) that opens (eye_gaze.py only; app.py has no camera)
Open(caps, c) == [caps EXCEPT ![c] = IF variant = "eye_gaze" THEN "open" ELSE @]

\* faulty finally clause: the camera is kept
ReleaseSkipped(caps, c) == caps

\* finally: cap.release()
Release(caps, c) == [caps EXCEPT ![c] = IF @ = "open" THEN "released" ELSE @]

\* the event loop runs c's coroutine only if no other coroutine is spinning;
\* a task that was cancelled does not go on, it is resumed with CancelledError
Runnable(c) == holder \in {NoConn, c} /\ ~shutdown

\* faulty discard: when the socket is absent another member is dropped
DiscardSome(clients, c) ==
    IF c \in clients \/ clients = {}
    THEN clients \ {c}
    ELSE clients \ {CHOOSE d \in clients : TRUE}

\* finally: self.connected_clients.discard(ws)
Discard(clients, c) == clients \ {c}

\* faulty dispatch: the loop is started as a task and the handler reads on
StartSpawned == "recv"

\* position of the handler after it dispatched start_tracking: it awaits the
\* emission loop and reads no message until the loop returns
StartAwaited == "tracking"

TypeOK ==
    /\ MAX_CONNECTIONS \in 1..MaxCapacity
    /\ variant \in Variants
    /\ source_ok \in BOOLEAN
    /\ connected_clients \subseteq Conns
    /\ is_running \in BOOLEAN
    /\ pc \in [Conns -> {"idle", "accepted", "closing", "refused", "recv",
                         "tracking", "done"}]
    /\ \A c \in Conns : Len(inbox[c]) <= MaxInbox
    /\ closed \in [Conns -> BOOLEAN]
    /\ \A c \in Conns : Len(out[c]) <= MaxOut
    /\ close_frame \in [Conns -> {NoClose, CapacityClose}]
    /\ emitters \in [Conns -> Nat]
    /\ holder \in Conns \cup {NoConn}
    /\ nsent \in 0..MaxSends
    /\ read_any \in [Conns -> BOOLEAN]
    /\ stop_wait \in [Conns -> BOOLEAN]
    /\ after_stop \in [Conns -> 0..MaxCount]
    /\ phase \in [Conns -> {0, 1}]
    /\ first \in [Conns -> {"none", "ping", "else"}]
    /\ ever_member \in [Conns -> BOOLEAN]
    /\ eye_data \in [eye_count : 0..MaxEyes, confidence : 0..10]
    /\ send_failed \in [Conns -> BOOLEAN]
    /\ cap \in [Conns -> CapStates]
    /\ spin \in {0, 1}
    /\ shutdown \in BOOLEAN

\* -------------------------------------------------------------------- init
\* EyeTracker.__init__: empty registry, tracking off.  app.py starts even when
\* the cascades failed to load; eye_gaze.py re-raises, so a running eye_gaze
\* server always has its cascades.
Init ==
    /\ MAX_CONNECTIONS \in 1..MaxCapacity
    /\ variant \in Variants
    /\ source_ok \in IF variant = "eye_gaze" THEN {TRUE} ELSE BOOLEAN
    /\ connected_clients = {}
    /\ is_running = FALSE
    /\ pc = [c \in Conns |-> "idle"]
    /\ inbox = [c \in Conns |-> <<>>]
    /\ closed = [c \in Conns |-> FALSE]
    /\ out = [c \in Conns |-> <<>>]
    /\ close_frame = [c \in Conns |-> NoClose]
    /\ emitters = [c \in Conns |-> 0]
    /\ holder = NoConn
    /\ nsent = 0
    /\ read_any = [c \in Conns |-> FALSE]
    /\ stop_wait = [c \in Conns |-> FALSE]
    /\ after_stop = [c \in Conns |-> 0]
    /\ phase = [c \in Conns |-> 0]
    /\ first = [c \in Conns |-> "none"]
    /\ ever_member = [c \in Conns |-> FALSE]
    /\ eye_data = NoData
    /\ send_failed = [c \in Conns |-> FALSE]
    /\ cap = [c \in Conns |-> "none"]
    /\ spin = 0
    /\ shutdown = FALSE

\* ----------------------------------------------------------------- clients

\* a client opens a connection and its handler starts (app.py: after
\* ws.prepare); connections are numbered in the order they arrive
Connect(c) ==
    /\ pc[c] = "idle"
    /\ ~shutdown
    /\ holder = NoConn
    /\ \A d \in Conns : d < c => pc[d] # "idle"
    /\ pc' = [pc EXCEPT ![c] = "accepted"]
    /\ UNCHANGED <<MAX_CONNECTIONS, variant, source_ok, connected_clients,
                   is_running, inbox, closed, out, close_frame, emitters,
                   holder, nsent, read_any, stop_wait, after_stop, phase,
                   first, ever_member, eye_data, send_failed, cap, spin,
                   shutdown>>

\* a client sends one text message
ClientSend(c, m) ==
    /\ pc[c] \in {"accepted", "closing", "recv", "tracking"}
    /\ ~shutdown
    /\ ~closed[c]
    /\ nsent < MaxSends
    /\ Len(inbox[c]) < MaxInbox
    /\ inbox' = [inbox EXCEPT ![c] = Append(@, m)]
    /\ nsent' = nsent + 1
    /\ first' = [first EXCEPT ![c] =
           IF @ # "none" THEN @ ELSE IF m = "ping" THEN "ping" ELSE "else"]
    /\ stop_wait' = [stop_wait EXCEPT ![c] =
           @ \/ (m = "stop_tracking" /\ emitters[c] > 0)]
    /\ UNCHANGED <<MAX_CONNECTIONS, variant, source_ok, connected_clients,
                   is_running, pc, closed, out, close_frame, emitters, holder,
                   read_any, after_stop, phase, ever_member, eye_data,
                   send_failed, cap, spin, shutdown>>

\* a client closes the transport
ClientClose(c) ==
    /\ pc[c] \in {"accepted", "closing", "recv", "tracking"}
    /\ ~shutdown
    /\ ~closed[c]
    /\ closed' = [closed EXCEPT ![c] = TRUE]
    /\ first' = [first EXCEPT ![c] = IF @ # "none" THEN @ ELSE "else"]
    /\ UNCHANGED <<MAX_CONNECTIONS, variant, source_ok, connected_clients,
                   is_running, pc, inbox, out, close_frame, emitters, holder,
                   nsent, read_any, stop_wait, after_stop, phase, ever_member,
                   eye_data, send_failed, cap, spin, shutdown>>

\* ---------------------------------------------------------------- handler

\* faulty finally clause: the socket stays in the registry
TeardownKeeps(c) ==
    /\ connected_clients' = connected_clients
    /\ pc' = [pc EXCEPT ![c] = "done"]

\* leave the handler through its finally clause
Teardown(c) ==
    /\ connected_clients' = Discard(connected_clients, c)
    /\ pc' = [pc EXCEPT ![c] = "done"]

\* capacity check passed: add, then send the welcome, with no await between
Admit(c) ==
    /\ pc[c] = "accepted"
    /\ Runnable(c)
    /\ ~AtCapacity(connected_clients)
    /\ IF SendOk(c)
       THEN /\ connected_clients' = connected_clients \cup {c}
            /\ out' = [out EXCEPT ![c] = SendWelcome(@)]
            /\ pc' = [pc EXCEPT ![c] = "recv"]
       ELSE /\ Teardown(c)
            /\ out' = out
    /\ ever_member' = [ever_member EXCEPT ![c] = TRUE]
    /\ send_failed' = SendResult(c)
    /\ UNCHANGED <<MAX_CONNECTIONS, variant, source_ok, is_running, inbox,
                   closed, close_frame, emitters, holder, nsent, read_any,
                   stop_wait, after_stop, phase, first, eye_data, cap, spin,
                   shutdown>>

\* capacity check failed.  eye_gaze.py: await close(code=1013, reason="Server
\* at capacity").  app.py: ws.close(code=1013, reason=...) is called with a
\* keyword that aiohttp's close does not have, so the call raises TypeError
\* before any close frame is sent; it is outside the try, so the handler
\* ends there, the socket never added.
Refuse(c) ==
    /\ pc[c] = "accepted"
    /\ Runnable(c)
    /\ AtCapacity(connected_clients)
    /\ IF variant = "app"
       THEN /\ pc' = [pc EXCEPT ![c] = "done"]
            /\ close_frame' = close_frame
       ELSE /\ pc' = [pc EXCEPT ![c] = "closing"]
            /\ close_frame' = [close_frame EXCEPT ![c] = CapacityClose]
    /\ UNCHANGED <<MAX_CONNECTIONS, variant, source_ok, connected_clients,
                   is_running, inbox, closed, out, emitters, holder, nsent,
                   read_any, stop_wait, after_stop, phase, first, ever_member,
                   eye_data, send_failed, cap, spin, shutdown>>

\* eye_gaze.py: the close returned: return, through finally, which discards
\* a socket that was never added
RefuseReturn(c) ==
    /\ pc[c] = "closing"
    /\ Runnable(c)
    /\ pc' = [pc EXCEPT ![c] = "refused"]
    /\ connected_clients' = Discard(connected_clients, c)
    /\ UNCHANGED <<MAX_CONNECTIONS, variant, source_ok, is_running, inbox,
                   closed, out, close_frame, emitters, holder, nsent, read_any,
                   stop_wait, after_stop, phase, first, ever_member, eye_data,
                   send_failed, cap, spin, shutdown>>

\* the inbound loop has a message to read
Reads(c, m) ==
    /\ pc[c] = "recv"
    /\ Runnable(c)
    /\ inbox[c] # <<>>
    /\ Head(inbox[c]) = m
    /\ inbox' = [inbox EXCEPT ![c] = Tail(@)]
    /\ read_any' = [read_any EXCEPT ![c] = TRUE]

\* async for ends: the transport is closed and nothing is left to read
EndOfStream(c) ==
    /\ pc[c] = "recv"
    /\ Runnable(c)
    /\ inbox[c] = <<>>
    /\ closed[c]
    /\ Teardown(c)
    /\ UNCHANGED <<MAX_CONNECTIONS, variant, source_ok, is_running, inbox,
                   closed, out, close_frame, emitters, holder, nsent, read_any,
                   stop_wait, after_stop, phase, first, ever_member, eye_data,
                   send_failed, cap, spin, shutdown>>

\* ping: send pong.  A failed send ends the session in app.py; eye_gaze.py
\* catches it in the loop body and reads on.
HandlePing(c) ==
    /\ Reads(c, "ping")
    /\ send_failed' = SendResult(c)
    /\ IF SendOk(c)
       THEN /\ out' = [out EXCEPT ![c] = Obs(@, "pong")]
            /\ UNCHANGED <<connected_clients, pc>>
       ELSE /\ out' = out
            /\ IF variant = "app"
               THEN Teardown(c)
               ELSE UNCHANGED <<pc, connected_clients>>
    /\ UNCHANGED <<MAX_CONNECTIONS, variant, source_ok, is_running, closed,
                   close_frame, emitters, holder, nsent, stop_wait, after_stop,
                   phase, first, ever_member, eye_data, cap, spin, shutdown>>

\* stop_tracking: self.is_running = False
HandleStop(c) ==
    /\ Reads(c, "stop_tracking")
    /\ is_running' = FALSE
    /\ UNCHANGED <<MAX_CONNECTIONS, variant, source_ok, connected_clients, pc,
                   closed, out, close_frame, emitters, holder, nsent,
                   stop_wait, after_stop, phase, first, ever_member, eye_data,
                   send_failed, cap, spin, shutdown>>

\* faulty handling of an unknown type: an error message is sent back
HandleOtherReplies(c) ==
    /\ Reads(c, "other")
    /\ out' = [out EXCEPT ![c] = IF SendOk(c) THEN Obs(@, "error") ELSE @]
    /\ UNCHANGED <<MAX_CONNECTIONS, variant, source_ok, connected_clients,
                   is_running, pc, closed, close_frame, emitters, holder,
                   nsent, stop_wait, after_stop, phase, first, ever_member,
                   eye_data, send_failed, cap, spin, shutdown>>

\* any other object (the type is none of the three, or missing): logged
HandleOther(c) ==
    /\ Reads(c, "other")
    /\ UNCHANGED <<MAX_CONNECTIONS, variant, source_ok, connected_clients,
                   is_running, pc, closed, out, close_frame, emitters, holder,
                   nsent, stop_wait, after_stop, phase, first, ever_member,
                   eye_data, send_failed, cap, spin, shutdown>>

\* except json.JSONDecodeError: send the error; a failed send leaves the
\* handler (it is raised inside the except clause)
HandleNotJson(c) ==
    /\ Reads(c, "notjson")
    /\ send_failed' = SendResult(c)
    /\ IF SendOk(c)
       THEN /\ out' = [out EXCEPT ![c] = Obs(@, "error")]
            /\ UNCHANGED <<connected_clients, pc>>
       ELSE /\ out' = out
            /\ Teardown(c)
    /\ UNCHANGED <<MAX_CONNECTIONS, variant, source_ok, is_running, closed,
                   close_frame, emitters, holder, nsent, stop_wait, after_stop,
                   phase, first, ever_member, eye_data, cap, spin, shutdown>>

\* data.get raises AttributeError: app.py leaves the handler, eye_gaze.py
\* logs it and reads on
HandleNonObject(c) ==
    /\ Reads(c, "nonobject")
    /\ IF variant = "app" THEN Teardown(c) ELSE UNCHANGED <<pc, connected_clients>>
    /\ UNCHANGED <<MAX_CONNECTIONS, variant, source_ok, is_running, closed,
                   out, close_frame, emitters, holder, nsent, stop_wait,
                   after_stop, phase, first, ever_member, eye_data,
                   send_failed, cap, spin, shutdown>>

\* the emission loop of c returns to process_message, which returns to the
\* inbound loop
LoopReturns(c) ==
    /\ emitters' = [emitters EXCEPT ![c] = @ - 1]
    /\ pc' = [pc EXCEPT ![c] = IF @ = "tracking" THEN "recv" ELSE @]
    /\ holder' = NoConn
    /\ spin' = 0
    /\ after_stop' = [after_stop EXCEPT ![c] = 0]
    /\ stop_wait' = [stop_wait EXCEPT ![c] = FALSE]
    /\ cap' = Release(cap, c)

\* faulty emission: eye_data goes to every registered socket
SendsEyeDataBroadcast(c) ==
    /\ out' = [d \in Conns |->
                 IF d \in connected_clients THEN Obs(out[d], "eye_data")
                 ELSE out[d]]
    /\ IF variant = "app"
       THEN eye_data' = SimulatedData
       ELSE \E faces \in Detections : eye_data' = LiveData(faces)
    /\ phase' = [d \in Conns |->
                   IF d \in connected_clients THEN 1 - phase[d] ELSE phase[d]]
    /\ after_stop' = [after_stop EXCEPT ![c] =
           IF stop_wait[c]
           THEN (IF @ < MaxCount THEN @ + 1 ELSE @)
           ELSE @]

\* one eye_data message is sent and the loop sleeps until the next tick
SendsEyeData(c) ==
    /\ out' = [out EXCEPT ![c] = Obs(@, "eye_data")]
    /\ IF variant = "app"
       THEN eye_data' = SimulatedData
       ELSE \E faces \in Detections : eye_data' = LiveData(faces)
    /\ phase' = [phase EXCEPT ![c] = 1 - @]
    /\ after_stop' = [after_stop EXCEPT ![c] =
           IF stop_wait[c]
           THEN (IF @ < MaxCount THEN @ + 1 ELSE @)
           ELSE @]

\* faulty handling of an unavailable source: the error is sent and the
\* handler is left
HandleStartUnavailableFatal(c) ==
    /\ Reads(c, "start_tracking")
    /\ variant = "app" => ~source_ok
    /\ is_running' = IF variant = "eye_gaze" THEN TRUE ELSE is_running
    /\ send_failed' = SendResult(c)
    /\ out' = [out EXCEPT ![c] = IF SendOk(c) THEN Obs(@, "error") ELSE @]
    /\ Teardown(c)
    /\ cap' = NoCamera(cap, c)
    /\ UNCHANGED <<MAX_CONNECTIONS, variant, source_ok, closed, close_frame,
                   emitters, holder, nsent, stop_wait, after_stop, phase,
                   first, ever_member, eye_data, spin, shutdown>>

\* start_tracking, source unavailable: one error message, no loop.
\* app.py: the cascades are not loaded; it returns before touching is_running
\* (a failed send ends the session).  eye_gaze.py: the cameras are tried anew
\* at every call and this time none opens; is_running has already been set
\* (a failed send is caught by the inbound loop, which reads on).
HandleStartUnavailable(c) ==
    /\ Reads(c, "start_tracking")
    /\ variant = "app" => ~source_ok
    /\ is_running' = IF variant = "eye_gaze" THEN TRUE ELSE is_running
    /\ send_failed' = SendResult(c)
    /\ IF SendOk(c)
       THEN /\ out' = [out EXCEPT ![c] = Obs(@, "error")]
            /\ UNCHANGED <<connected_clients, pc>>
       ELSE /\ out' = out
            /\ IF variant = "app"
               THEN Teardown(c)
               ELSE UNCHANGED <<pc, connected_clients>>
    /\ cap' = NoCamera(cap, c)
    /\ UNCHANGED <<MAX_CONNECTIONS, variant, source_ok, closed, close_frame,
                   emitters, holder, nsent, stop_wait, after_stop, phase,
                   first, ever_member, eye_data, spin, shutdown>>

\* start_tracking, source available (app.py: the cascades are loaded;
\* eye_gaze.py: a camera opens at this call): is_running = True and the first
\* pass of the loop, up to its sleep.  The handler stays inside
\* start_eye_tracking.
HandleStart(c) ==
    /\ Reads(c, "start_tracking")
    /\ variant = "app" => source_ok
    /\ is_running' = TRUE
    /\ send_failed' = SendResult(c)
    /\ IF SendOk(c)
       THEN /\ SendsEyeData(c)
            /\ emitters' = [emitters EXCEPT ![c] = @ + 1]
            /\ pc' = [pc EXCEPT ![c] = StartAwaited]
            /\ cap' = Open(cap, c)
       ELSE /\ UNCHANGED <<out, phase, after_stop, emitters, pc, eye_data>>
            /\ cap' = Release(Open(cap, c), c)
    /\ UNCHANGED <<MAX_CONNECTIONS, variant, source_ok, connected_clients,
                   closed, close_frame, holder, nsent, stop_wait, first,
                   ever_member, spin, shutdown>>

\* eye_gaze.py, first pass: cap.read() fails and the loop continues without
\* reaching an await
HandleStartReadFail(c) ==
    /\ Reads(c, "start_tracking")
    /\ variant = "eye_gaze"
    /\ is_running' = TRUE
    /\ emitters' = [emitters EXCEPT ![c] = @ + 1]
    /\ pc' = [pc EXCEPT ![c] = StartAwaited]
    /\ holder' = c
    /\ spin' = 1 - spin
    /\ cap' = Open(cap, c)
    /\ UNCHANGED <<MAX_CONNECTIONS, variant, source_ok, connected_clients,
                   closed, out, close_frame, nsent, stop_wait, after_stop,
                   phase, first, ever_member, eye_data, send_failed, shutdown>>

\* eye_gaze.py, first pass: a camera opens and cap.read(), cv2.cvtColor or a
\* detector raises before the loop has reached an await: except Exception
\* logs, finally releases the camera, and start_eye_tracking returns to the
\* inbound loop with nothing sent
HandleStartRaises(c) ==
    /\ Reads(c, "start_tracking")
    /\ variant = "eye_gaze"
    /\ is_running' = TRUE
    /\ cap' = Release(Open(cap, c), c)
    /\ UNCHANGED <<MAX_CONNECTIONS, variant, source_ok, connected_clients, pc,
                   closed, out, close_frame, emitters, holder, nsent,
                   stop_wait, after_stop, phase, first, ever_member, eye_data,
                   send_failed, spin, shutdown>>

\* while self.is_running: the flag is clear, the loop ends
EmitExit(c) ==
    /\ emitters[c] > 0
    /\ Runnable(c)
    /\ ~is_running
    /\ LoopReturns(c)
    /\ UNCHANGED <<MAX_CONNECTIONS, variant, source_ok, connected_clients,
                   is_running, inbox, closed, out, close_frame, nsent,
                   read_any, phase, first, ever_member, eye_data, send_failed,
                   shutdown>>

\* one pass of the loop: eye_data is sent, then asyncio.sleep
EmitSend(c) ==
    /\ emitters[c] > 0
    /\ Runnable(c)
    /\ is_running
    /\ SendOk(c)
    /\ SendsEyeData(c)
    /\ holder' = NoConn
    /\ spin' = 0
    /\ UNCHANGED <<MAX_CONNECTIONS, variant, source_ok, connected_clients,
                   is_running, pc, inbox, closed, close_frame, emitters, nsent,
                   read_any, stop_wait, first, ever_member, send_failed, cap,
                   shutdown>>

\* the send raises: break
EmitSendFail(c) ==
    /\ emitters[c] > 0
    /\ Runnable(c)
    /\ is_running
    /\ ~SendOk(c)
    /\ send_failed' = SendResult(c)
    /\ LoopReturns(c)
    /\ UNCHANGED <<MAX_CONNECTIONS, variant, source_ok, connected_clients,
                   is_running, inbox, closed, out, close_frame, nsent,
                   read_any, phase, first, ever_member, eye_data, shutdown>>

\* eye_gaze.py: the conversion or a detector raises: except Exception, then
\* finally, and start_eye_tracking returns
EmitRaises(c) ==
    /\ emitters[c] > 0
    /\ Runnable(c)
    /\ is_running
    /\ variant = "eye_gaze"
    /\ LoopReturns(c)
    /\ UNCHANGED <<MAX_CONNECTIONS, variant, source_ok, connected_clients,
                   is_running, inbox, closed, out, close_frame, nsent,
                   read_any, phase, first, ever_member, eye_data, send_failed,
                   shutdown>>

\* eye_gaze.py: cap.read() fails, continue: the next pass starts at once
EmitReadFail(c) ==
    /\ emitters[c] > 0
    /\ Runnable(c)
    /\ is_running
    /\ variant = "eye_gaze"
    /\ holder' = c
    /\ spin' = 1 - spin
    /\ UNCHANGED <<MAX_CONNECTIONS, variant, source_ok, connected_clients,
                   is_running, pc, inbox, closed, out, close_frame, emitters,
                   nsent, read_any, stop_wait, after_stop, phase, first,
                   ever_member, eye_data, send_failed, cap, shutdown>>

\* the server is stopped: app.py leaves 'await asyncio.Future()' and runs
\* runner.cleanup(), eye_gaze.py leaves asyncio.run; either way the listening
\* socket takes no more connections and every handler task is cancelled.
\* From here on no handler reads, so what the clients do is no longer seen.
Shutdown ==
    /\ ~shutdown
    /\ shutdown' = TRUE
    /\ UNCHANGED <<MAX_CONNECTIONS, variant, source_ok, connected_clients,
                   is_running, pc, inbox, closed, out, close_frame, emitters,
                   holder, nsent, read_any, stop_wait, after_stop, phase,
                   first, ever_member, eye_data, send_failed, cap, spin>>

\* faulty cancellation: the task is dropped and its finally clauses never run
CancelAbandons(c) ==
    /\ shutdown
    /\ pc[c] \in {"accepted", "closing", "recv", "tracking"}
    /\ holder \in {NoConn, c}
    /\ pc' = [pc EXCEPT ![c] = "done"]
    /\ holder' = NoConn
    /\ spin' = 0
    /\ closed' = [closed EXCEPT ![c] = TRUE]
    /\ inbox' = [inbox EXCEPT ![c] = <<>>]
    /\ UNCHANGED <<MAX_CONNECTIONS, variant, source_ok, connected_clients,
                   is_running, out, close_frame, emitters, nsent, read_any,
                   stop_wait, after_stop, phase, first, ever_member, eye_data,
                   send_failed, cap, shutdown>>

\* a cancelled handler task is resumed: CancelledError is raised at the await
\* it was suspended in (in a coroutine that spins, the interrupt is raised
\* where it runs).  Neither is an Exception, so it passes every except clause
\* and the finally clauses run: the camera is released, the socket discarded.
\* The server then closes the connection and what the client had sent is
\* never read.
Cancel(c) ==
    /\ shutdown
    /\ pc[c] \in {"accepted", "closing", "recv", "tracking"}
    /\ holder \in {NoConn, c}
    /\ Teardown(c)
    /\ emitters' = [emitters EXCEPT ![c] = 0]
    /\ holder' = NoConn
    /\ spin' = 0
    /\ after_stop' = [after_stop EXCEPT ![c] = 0]
    /\ stop_wait' = [stop_wait EXCEPT ![c] = FALSE]
    /\ closed' = [closed EXCEPT ![c] = TRUE]
    /\ inbox' = [inbox EXCEPT ![c] = <<>>]
    /\ cap' = Release(cap, c)
    /\ UNCHANGED <<MAX_CONNECTIONS, variant, source_ok, is_running, out,
                   close_frame, nsent, read_any, phase, first, ever_member,
                   eye_data, send_failed, shutdown>>

\* every step of connection c's handler coroutine
Server(c) ==
    \/ Admit(c) \/ Refuse(c) \/ RefuseReturn(c) \/ EndOfStream(c)
    \/ HandlePing(c) \/ HandleStop(c) \/ HandleOther(c) \/ HandleNotJson(c)
    \/ HandleNonObject(c) \/ HandleStartUnavailable(c) \/ HandleStart(c)
    \/ HandleStartReadFail(c)
    \/ HandleStartRaises(c)
    \/ EmitExit(c) \/ EmitSend(c) \/ EmitSendFail(c) \/ EmitReadFail(c)
    \/ EmitRaises(c)

Next ==
    \/ \E c \in Conns : Connect(c)
    \/ \E c \in Conns : \E m \in Msgs : ClientSend(c, m)
    \/ \E c \in Conns : ClientClose(c)
    \/ \E c \in Conns : Admit(c)
    \/ \E c \in Conns : Refuse(c)
    \/ \E c \in Conns : RefuseReturn(c)
    \/ \E c \in Conns : EndOfStream(c)
    \/ \E c \in Conns : HandlePing(c)
    \/ \E c \in Conns : HandleStop(c)
    \/ \E c \in Conns : HandleOther(c)
    \/ \E c \in Conns : HandleNotJson(c)
    \/ \E c \in Conns : HandleNonObject(c)
    \/ \E c \in Conns : HandleStartUnavailable(c)
    \/ \E c \in Conns : HandleStart(c)
    \/ \E c \in Conns : HandleStartReadFail(c)
    \/ \E c \in Conns : HandleStartRaises(c)
    \/ \E c \in Conns : EmitExit(c)
    \/ \E c \in Conns : EmitSend(c)
    \/ \E c \in Conns : EmitSendFail(c)
    \/ \E c \in Conns : EmitReadFail(c)
    \/ \E c \in Conns : EmitRaises(c)
    \/ Shutdown
    \/ \E c \in Conns : Cancel(c)

Spec == Init /\ [][Next]_vars

\* the runs checked for progress.  The event loop runs every coroutine that
\* is ready: its ready queue is first in, first out, so a coroutine that is
\* ready again and again (while another one spins and suspends in turn) is
\* run
FairNext ==
    \/ \E c \in Conns : Connect(c)
    \/ \E c \in Conns : \E m \in Msgs : ClientSend(c, m)
    \/ \E c \in Conns : ClientClose(c)
    \/ \E c \in Conns : Server(c)
    \/ Shutdown
    \/ \E c \in Conns : Cancel(c)

FairSpec ==
    /\ Init
    /\ [][FairNext]_vars
    /\ \A c \in Conns : SF_vars(Server(c))
    /\ \A c \in Conns : WF_vars(Cancel(c))

\* ------------------------------------------------------------------ claims

Admitted(c) == c \in connected_clients
Pending(c, m) == \E i \in 1..Len(inbox[c]) : inbox[c][i] = m
\* the inbound loop of c takes the next message, which is m
ReadStep(c, m) ==
    /\ pc[c] = "recv"
    /\ inbox[c] # <<>>
    /\ Head(inbox[c]) = m
    /\ inbox'[c] = Tail(inbox[c])
    /\ read_any'[c]
    /\ closed'[c] = closed[c]
    /\ ~shutdown

\* C1: in every reachable state connected_clients holds at most
\* MAX_CONNECTIONS sockets, and every step that adds a socket starts from a
\* state whose count is below MAX_CONNECTIONS (the check and the add are one
\* step).
C1_CapacityNeverExceeded ==
    /\ [](Cardinality(connected_clients) <= MAX_CONNECTIONS)
    /\ [][\A c \in Conns :
            (c \notin connected_clients /\ c \in connected_clients')
            => Cardinality(connected_clients) < MAX_CONNECTIONS]_vars

\* the registry is full and a further connection has been refused
C1_Witness ==
    /\ Cardinality(connected_clients) = MAX_CONNECTIONS
    /\ ~shutdown
    /\ \E c \in Conns : pc[c] \in {"refused", "done"} /\ ~ever_member[c]

\* C2: when more connections are attempted than MAX_CONNECTIONS, every one
\* has passed the capacity check and no admitted session has finished, then
\* exactly MAX_CONNECTIONS are admitted and have the welcome as their first
\* message, and every other one was closed with code 1013, got no message and
\* was never in connected_clients.
AllDecided == \A c \in Conns : pc[c] \notin {"idle", "accepted"}
NoneFinished == ~shutdown /\ \A c \in Conns : pc[c] = "done" => ~ever_member[c]
C2_ExactlyCapacityAdmitted ==
    (NumConns > MAX_CONNECTIONS /\ AllDecided /\ NoneFinished)
    => /\ Cardinality(connected_clients) = MAX_CONNECTIONS
       /\ \A c \in connected_clients : out[c] # <<>> /\ out[c][1] = "connection"
       /\ \A c \in Conns \ connected_clients :
              /\ close_frame[c].code = CLOSE_TRY_AGAIN_LATER
              /\ out[c] = <<>>
              /\ ~ever_member[c]

\* C2, the part that holds: the same without the close code.
C2_ExactlyCapacityMembers ==
    (NumConns > MAX_CONNECTIONS /\ AllDecided /\ NoneFinished)
    => /\ Cardinality(connected_clients) = MAX_CONNECTIONS
       /\ \A c \in connected_clients : out[c] # <<>> /\ out[c][1] = "connection"
       /\ \A c \in Conns \ connected_clients : out[c] = <<>> /\ ~ever_member[c]

\* the handler of c leaves its capacity check in this step without adding
\* the socket
RefusedStep(c) ==
    /\ pc[c] = "accepted" /\ pc'[c] # "accepted"
    /\ ~shutdown
    /\ ~ever_member'[c]

\* C3: a connection refused for capacity gets the close frame with code 1013
\* and reason "Server at capacity" and nothing else: no JSON message is sent
\* to it, no message of it is read, and it is never in connected_clients.
C3_RefusedGetsOnlyClose ==
    /\ [][\A c \in Conns :
            RefusedStep(c) => close_frame'[c] = CapacityClose]_vars
    /\ [](\A c \in Conns :
            /\ pc[c] \in {"closing", "refused"} => close_frame[c] = CapacityClose
            /\ close_frame[c].code = CLOSE_TRY_AGAIN_LATER
               => /\ out[c] = <<>>
                  /\ ~read_any[c]
                  /\ c \notin connected_clients
                  /\ ~ever_member[c])

\* C3, the part that holds: a connection that left its capacity check
\* without being added is sent no JSON message, no message of it is read,
\* and it is never in connected_clients.
C3_RefusedGetsNoMessage ==
    /\ [][\A c \in Conns :
            RefusedStep(c)
            => Cardinality(connected_clients) = MAX_CONNECTIONS]_vars
    /\ [](\A c \in Conns :
            (pc[c] \notin {"idle", "accepted"} /\ ~ever_member[c])
            => out[c] = <<>> /\ ~read_any[c] /\ c \notin connected_clients)

\* C4: after a stop_tracking of the client arrived on a session whose
\* emission loop is running, at most two further eye_data messages are sent
\* to it.
C4_StopHaltsEmission ==
    \A c \in Conns : after_stop[c] <= 2

\* C5: a ping that arrives while the session's emission loop runs is read
\* and answered while the loop still runs, unless the transport closes, the
\* tracking flag is cleared, the loop is ended by an exception or a frame
\* read fails first.
C5_PingAnsweredDuringEmission ==
    \A c \in Conns :
        (emitters[c] > 0 /\ Pending(c, "ping"))
        ~> \/ emitters[c] > 0 /\ ~Pending(c, "ping")
           \/ closed[c]
           \/ ~is_running
           \/ emitters[c] = 0
           \/ holder # NoConn

\* C6: every ping of an admitted client whose transport stays open gets
\* exactly one pong: reading a ping appends one pong, before anything sent
\* later, and every ping is read.  (A session that has been torn down is
\* left to the claims about teardown, a frame read that fails to the claims
\* about capture.)
C6_EveryPingOnePong ==
    /\ [][\A c \in Conns :
            (ReadStep(c, "ping") /\ ~closed[c] /\ Len(out[c]) < MaxOut)
            => out'[c] = Append(out[c], "pong")]_vars
    /\ \A c \in Conns :
          (Admitted(c) /\ Pending(c, "ping"))
          ~> \/ ~Pending(c, "ping") \/ closed[c] \/ pc[c] = "done"
             \/ holder # NoConn

\* C7 as stated: when the first act of a client was to send a ping, the
\* first message it receives is the pong.
C7_FirstMessageIsPong ==
    \A c \in Conns :
        (first[c] = "ping" /\ out[c] # <<>>) => out[c][1] = "pong"

\* C7 amended: when the first act of a client was to send a ping, the first
\* message it receives is the connection welcome and the second is the pong.
C7_WelcomeThenPong ==
    \A c \in Conns :
        first[c] = "ping"
        => /\ Len(out[c]) >= 1 => out[c][1] = "connection"
           /\ Len(out[c]) >= 2 => out[c][2] = "pong"

\* a client that pinged first and has received the welcome and the pong
C7_Witness ==
    \E c \in Conns :
        first[c] = "ping" /\ Len(out[c]) >= 2 /\ out[c][2] = "pong" /\ read_any[c]

\* C8: a command read from session b never changes the tracking flag that
\* the running emission loop of another session a polls.
C8_TrackingOwnedBySession ==
    [][\A a \in Conns : \A b \in Conns \ {a} :
          (/\ emitters[a] > 0
           /\ ReadStep(b, "start_tracking") \/ ReadStep(b, "stop_tracking"))
          => is_running' = is_running]_vars

\* C9: at most one emission loop executes for a session.
C9_OneEmitterPerSession ==
    \A c \in Conns : emitters[c] <= 1

\* a session whose loop runs and has sent eye_data while a further
\* start_tracking of its client waits
C9_Witness ==
    \E c \in Conns :
        /\ emitters[c] = 1
        /\ Pending(c, "start_tracking")
        /\ Len(out[c]) >= 2 /\ out[c][2] = "eye_data"

\* C10: every unparseable text message of an admitted client whose transport
\* stays open is answered by exactly one error message, after which the
\* session is still admitted and reading (unless a frame read fails first).
C10_BadJsonOneError ==
    /\ [][\A c \in Conns :
            (ReadStep(c, "notjson") /\ ~closed[c] /\ Len(out[c]) < MaxOut)
            => /\ out'[c] = Append(out[c], "error")
               /\ c \in connected_clients'
               /\ pc'[c] = "recv"]_vars
    /\ \A c \in Conns :
          (Admitted(c) /\ Pending(c, "notjson"))
          ~> \/ ~Pending(c, "notjson") \/ closed[c] \/ pc[c] = "done"
             \/ holder # NoConn

\* C11: however an admitted session ends, its socket leaves connected_clients
\* exactly once: a finished handler's socket is not in the registry, the step
\* that finishes the handler removes that socket and no other, a socket
\* leaves the registry only in that step, and it never enters it again.
C11_ReleasedExactlyOnce ==
    /\ [](\A c \in Conns : pc[c] = "done" => c \notin connected_clients)
    /\ [][\A c \in Conns :
            /\ (c \in connected_clients /\ pc'[c] = "done")
               => /\ connected_clients' = connected_clients \ {c}
                  /\ Cardinality(connected_clients')
                       = Cardinality(connected_clients) - 1
            /\ (c \in connected_clients /\ c \notin connected_clients')
               => pc[c] # "done" /\ pc'[c] = "done"
            /\ (c \notin connected_clients /\ c \in connected_clients')
               => pc[c] = "accepted"]_vars

\* a session that was tracking has finished while another is still admitted
C11_Witness ==
    \E c \in Conns : \E d \in Conns \ {c} :
        /\ pc[c] = "done" /\ ever_member[c]
        /\ Len(out[c]) >= 2 /\ out[c][2] = "eye_data"
        /\ d \in connected_clients

\* C12: discarding is idempotent: a second discard of a socket, or the
\* discard of a socket that is not in the set, leaves the set and its count
\* unchanged; the refused connection of eye_gaze.py, which discards a socket
\* that was never added, leaves connected_clients as it was.
C12_ReleaseIdempotent ==
    /\ [](\A S \in SUBSET Conns : \A c \in Conns :
            /\ Discard(Discard(S, c), c) = Discard(S, c)
            /\ c \notin S => /\ Discard(S, c) = S
                             /\ Cardinality(Discard(S, c)) = Cardinality(S))
    /\ [][\A c \in Conns :
            (pc[c] = "closing" /\ pc'[c] = "refused")
            => connected_clients' = connected_clients]_vars

\* eye_gaze.py has refused a connection, discarded its socket, and the
\* admitted session is still in the registry
C12_Witness ==
    /\ variant = "eye_gaze"
    /\ \E c \in Conns : pc[c] = "refused" /\ ~ever_member[c]
    /\ connected_clients # {}

\* C13: while a session's emission loop runs, the tracking flag stays set
\* and the transport stays open, a further eye_data message is sent to it
\* again and again (unless an exception ends the loop); every eye_data
\* message has eye_count >= 0 and a confidence within [0, 1] (0..10 tenths).
C13_AlwaysKeepsSending ==
    /\ [](/\ eye_data.eye_count >= 0
          /\ eye_data.confidence >= 0
          /\ eye_data.confidence <= 10)
    /\ \A c \in Conns : \A p \in {0, 1} :
          (emitters[c] > 0 /\ phase[c] = p)
          ~> (phase[c] # p \/ ~is_running \/ closed[c] \/ emitters[c] = 0)

\* C13, the part that holds: the same, unless a frame read of some session
\* fails.
C13_KeepsSendingEyeData ==
    /\ [](/\ eye_data.eye_count >= 0
          /\ eye_data.confidence >= 0
          /\ eye_data.confidence <= 10)
    /\ \A c \in Conns : \A p \in {0, 1} :
          (emitters[c] > 0 /\ phase[c] = p)
          ~> \/ phase[c] # p \/ ~is_running \/ closed[c]
             \/ holder # NoConn \/ emitters[c] = 0

\* a client whose first message was start_tracking has received the welcome
\* and two eye_data messages, the last one reporting more than two eyes
C13_Witness ==
    \E c \in Conns :
        /\ out[c] = <<"connection", "eye_data", "eye_data">>
        /\ emitters[c] > 0
        /\ eye_data.eye_count > 2

\* C14: a failed send is terminal for the session: once a send on it has
\* raised, no emission loop runs for it and the handler takes up no further
\* command that makes it send (a ping, a start_tracking, an unparseable
\* text).
C14_SendFailureTerminal ==
    /\ [](\A c \in Conns : send_failed[c] => emitters[c] = 0)
    /\ [][\A c \in Conns :
            send_failed[c]
            => ~(\/ ReadStep(c, "ping")
                 \/ ReadStep(c, "notjson")
                 \/ ReadStep(c, "start_tracking"))]_vars

\* C15: a finished handler has no emission loop, and an emission loop whose
\* transport has closed ends.
C15_LoopsStopTogether ==
    /\ [](\A c \in Conns : pc[c] = "done" => emitters[c] = 0)
    /\ \A c \in Conns : (closed[c] /\ emitters[c] > 0) ~> emitters[c] = 0

\* the start_tracking that c's handler reads in this step, its transport
\* open, finds the frame source unavailable: app.py has no cascades;
\* eye_gaze.py has opened no camera
SourceFails(c) == IF variant = "app" THEN ~source_ok ELSE cap'[c] = "none"

\* C16: a start_tracking read while the frame source is unavailable and the
\* transport is open is answered by exactly one error message; no emission
\* loop starts, no eye_data is sent, and the session stays in
\* connected_clients with its inbound loop reading on.
C16_UnavailableSourceOneError ==
    [][\A c \in Conns :
          (/\ ReadStep(c, "start_tracking")
           /\ SourceFails(c) /\ ~closed[c] /\ Len(out[c]) < MaxOut)
          => /\ out'[c] = Append(out[c], "error")
             /\ emitters'[c] = 0
             /\ c \in connected_clients'
             /\ pc'[c] = "recv"]_vars

\* eye_gaze.py: no camera opened for the start_tracking of a client, which
\* was answered by the error; the client is still admitted with its inbound
\* loop reading (and the tracking flag is set)
C16_Witness ==
    \E c \in Conns :
        /\ variant = "eye_gaze" /\ is_running
        /\ \A d \in Conns : emitters[d] = 0 /\ cap[d] = "none" /\ phase[d] = 0
        /\ first[c] = "else" /\ read_any[c] /\ nsent = 1
        /\ out[c] = <<"connection", "error">>
        /\ inbox[c] = <<>>
        /\ c \in connected_clients /\ pc[c] = "recv"

\* C17: a frame read that fails sends nothing and leaves the loop running
\* with tracking enabled, and it is retried only after the loop has passed
\* through its inter-tick wait: no emission loop is ever about to capture
\* again without having suspended since a failed read.
C17_FailedReadWaitsForTick ==
    /\ [][\A c \in Conns :
            (holder' = c /\ spin' # spin)
            => out' = out /\ emitters'[c] = 1 /\ is_running']_vars
    /\ [](\A c \in Conns : holder # c)

\* C18: on every session the connection welcome is the first outbound
\* message, and the messages reach the client in the order of their sends:
\* a step leaves what the client has received as it is or adds one message
\* at its end.
C18_WelcomeFirstInOrder ==
    /\ [](\A c \in Conns : out[c] # <<>> => out[c][1] = "connection")
    /\ [][\A c \in Conns :
            \/ out'[c] = out[c]
            \/ /\ Len(out[c]) < MaxOut
               /\ \E m \in {"connection", "pong", "error", "eye_data"} :
                      out'[c] = Append(out[c], m)]_vars

\* a client has received the welcome, then the pong for its ping, then
\* eye_data
C18_Witness ==
    \E c \in Conns : out[c] = <<"connection", "pong", "eye_data">>

\* coroutines of session c that run code which sends on its socket: the
\* handler while it is not suspended inside start_eye_tracking, and every
\* emission loop
Senders(c) ==
    (IF pc[c] \in {"accepted", "closing", "recv"} THEN 1 ELSE 0) + emitters[c]

\* C19: at most one send is in flight on a connection: at most one coroutine
\* of a session is in a position to send.
C19_OneSendInFlight ==
    \A c \in Conns : Senders(c) <= 1

\* the emission loop of a session sends eye_data while a ping of its client
\* waits to be answered
C19_Witness ==
    \E c \in Conns :
        /\ emitters[c] = 1 /\ Senders(c) = 1
        /\ ~closed[c] /\ is_running
        /\ Pending(c, "ping")

\* C20: a camera that start_eye_tracking opened is released when the call
\* returns: a session without a running emission loop holds no camera.
C20_CameraReleased ==
    \A c \in Conns : emitters[c] = 0 => cap[c] # "open"

\* eye_gaze.py: a session that was tracking (its camera was open, eye_data
\* was sent) has left start_eye_tracking and holds no camera
C20_Witness ==
    /\ variant = "eye_gaze"
    /\ \E c \in Conns :
          /\ emitters[c] = 0 /\ cap[c] = "released"
          /\ pc[c] \in {"recv", "done"}
          /\ Len(out[c]) >= 2 /\ out[c][2] = "eye_data"

\* the handler of c is still on the event loop
Active(c) == pc[c] \in {"accepted", "closing", "recv", "tracking"}
\* the server was stopped and every handler task has ended
ShutdownComplete == shutdown /\ \A c \in Conns : ~Active(c)

\* C21: once shutdown has completed, connected_clients is empty, no emission
\* loop is running (none holds the event loop or a camera), and the step in
\* which a cancelled handler ends takes its socket out of the registry and
\* ends its emission loop.
C21_ShutdownReleasesAll ==
    /\ [](ShutdownComplete
          => /\ connected_clients = {}
             /\ \A c \in Conns : emitters[c] = 0 /\ cap[c] # "open"
             /\ holder = NoConn)
    /\ [][\A c \in Conns :
            (shutdown /\ Active(c) /\ ~Active(c)')
            => c \notin connected_clients' /\ emitters'[c] = 0]_vars

\* the server was stopped while both sessions were admitted and one of them
\* was receiving eye_data; every handler has ended
C21_Witness ==
    /\ ShutdownComplete
    /\ \A c \in Conns : ever_member[c] /\ out[c] # <<>> /\ ~send_failed[c]
    /\ \E c \in Conns : Len(out[c]) >= 2 /\ out[c][2] = "eye_data"
    /\ is_running

\* C22: reading an object whose type is none of ping, start_tracking and
\* stop_tracking (or is missing) has no effect: nothing is sent to anyone,
\* and the tracking flag, the registry, the position of every handler and
\* the emission loops are as before.
C22_UnknownTypeIgnored ==
    [][\A c \in Conns :
          ReadStep(c, "other")
          => /\ out' = out
             /\ close_frame' = close_frame
             /\ is_running' = is_running
             /\ connected_clients' = connected_clients
             /\ pc' = pc
             /\ emitters' = emitters]_vars

\* app.py with room for one session: a session that was tracking has ended
\* and left the tracking flag set; the session admitted after it has read
\* its only message, got no reply to it, and is still admitted and reading
\* with the flag still set (a ping, an unparseable text, a non-object, a
\* stop_tracking or a start_tracking would each have left a trace)
C22_Witness ==
    /\ variant = "app" /\ MAX_CONNECTIONS = 1 /\ nsent = 2 /\ is_running
    /\ \E c \in Conns : \E d \in Conns \ {c} :
          /\ pc[d] = "done" /\ Len(out[d]) >= 2 /\ out[d][2] = "eye_data"
          /\ read_any[c] /\ inbox[c] = <<>> /\ ~closed[c]
          /\ out[c] = <<"connection">>
          /\ c \in connected_clients /\ pc[c] = "recv" /\ emitters[c] = 0

\* C23: capture never stalls inbound processing.  Even in its weakest
\* reading: while some session is tracking, a ping or stop_tracking that
\* waits in a session whose handler is in its inbound loop is read, unless
\* that session's transport closes, its handler ends or it starts to track
\* itself first.
C23_CaptureNeverStalls ==
    \A c \in Conns : \A d \in Conns \ {c} :
        \A m \in {"ping", "stop_tracking"} :
            (emitters[c] > 0 /\ pc[d] = "recv" /\ Pending(d, m))
            ~> \/ ~Pending(d, m)
               \/ closed[d]
               \/ pc[d] # "recv"

\* C23, the part that holds: the same in app.py, whose loop has no capture
\* and suspends in every pass.
C23_SimulationNeverStalls ==
    \A c \in Conns : \A d \in Conns \ {c} :
        \A m \in {"ping", "stop_tracking"} :
            (variant = "app" /\ emitters[c] > 0 /\ pc[d] = "recv"
             /\ Pending(d, m))
            ~> \/ ~Pending(d, m)
               \/ closed[d]
               \/ pc[d] # "recv"

\* C24: no text payload by itself ends the session: after valid JSON that is
\* no object has been read, the client was sent an error message or nothing,
\* the session is still in connected_clients and its inbound loop reads on.
C24_NonObjectKeepsSession ==
    [][\A c \in Conns :
          ReadStep(c, "nonobject")
          => /\ \/ out'[c] = out[c]
                \/ out'[c] = Append(out[c], "error")
             /\ c \in connected_clients'
             /\ pc'[c] = "recv"]_vars

\* C24, the part that holds: the same in eye_gaze.py, whose inbound loop
\* catches the AttributeError.
C24_NonObjectCaught ==
    [][\A c \in Conns :
          (ReadStep(c, "nonobject") /\ variant = "eye_gaze")
          => /\ out'[c] = out[c]
             /\ c \in connected_clients'
             /\ pc'[c] = "recv"]_vars

\* C25: a start_tracking that fails because the frame source is unavailable
\* leaves tracking disabled: after it has been read and answered, is_running
\* is false.
C25_FailedStartLeavesDisabled ==
    [][\A c \in Conns :
          (ReadStep(c, "start_tracking") /\ ~closed[c] /\ SourceFails(c))
          => ~is_running']_vars

\* C25, the part that holds: the same in app.py, which tests the classifiers
\* before it sets the flag.
C25_NoClassifierLeavesDisabled ==
    [][\A c \in Conns :
          (/\ ReadStep(c, "start_tracking") /\ ~closed[c]
           /\ SourceFails(c) /\ variant = "app")
          => ~is_running']_vars

\* an eye_data message is sent to c in this step
EyeDataSent(c) == phase'[c] # phase[c]
\* an eye_data message is among those c has received
GotEyeData(c) == \E i \in 1..Len(out[c]) : out[c][i] = "eye_data"

\* C26: emission starts only by the session's own request: eye_data is sent
\* to a session only in the step that reads its own start_tracking or by its
\* own emission loop, that loop starts only in the step that reads its own
\* start_tracking, and a session none of whose messages has been read has
\* been sent no eye_data, whatever is_running is.
C26_EmissionOnlyOnRequest ==
    /\ [](\A c \in Conns :
            ~read_any[c] => emitters[c] = 0 /\ ~GotEyeData(c) /\ phase[c] = 0)
    /\ [][\A c \in Conns :
            /\ (EyeDataSent(c) \/ out'[c] = Append(out[c], "eye_data"))
               => ReadStep(c, "start_tracking") \/ emitters[c] > 0
            /\ (emitters[c] = 0 /\ emitters'[c] > 0)
               => ReadStep(c, "start_tracking")]_vars

\* one session receives eye_data and the tracking flag is set, while another
\* admitted session, which sent only a ping, has received its pong and no
\* eye_data
C26_Witness ==
    /\ is_running
    /\ \E c \in Conns : \E d \in Conns \ {c} :
          /\ emitters[c] = 1
          /\ out[c] = <<"connection", "eye_data", "eye_data">>
          /\ d \in connected_clients /\ pc[d] = "recv" /\ ~closed[d]
          /\ first[d] = "ping" /\ inbox[d] = <<>>
          /\ out[d] = <<"connection", "pong">> /\ phase[d] = 0

\* the sessions that were admitted and have not ended
Live == {c \in Conns : pc[c] \in {"recv", "tracking"}}

\* C27: the step in which a handler leaves its capacity check ends without
\* adding the socket exactly if connected_clients holds MAX_CONNECTIONS
\* sockets; below the limit the socket is added (and stays, if the welcome
\* can be sent); connected_clients holds exactly the sessions that were
\* admitted and have not ended, so the slot of a finished session is free
\* again.
C27_RefusedIffFull ==
    /\ [](connected_clients = Live)
    /\ [][\A c \in Conns :
            (pc[c] = "accepted" /\ pc'[c] # "accepted" /\ ~shutdown)
            => /\ RefusedStep(c)
                  <=> Cardinality(connected_clients) = MAX_CONNECTIONS
               /\ RefusedStep(c)
                  => c \notin connected_clients' /\ out'[c] = <<>>
               /\ Cardinality(connected_clients) < MAX_CONNECTIONS
                  => /\ ever_member'[c]
                     /\ ~closed[c] => c \in connected_clients']_vars

\* with room for one session: a session that had been tracking has ended
\* and the connection that came after it holds its slot
C27_Witness ==
    /\ MAX_CONNECTIONS = 1
    /\ \E c \in Conns : \E d \in Conns \ {c} :
          /\ pc[d] = "done" /\ ever_member[d] /\ GotEyeData(d)
          /\ connected_clients = {c}
          /\ out[c] # <<>> /\ out[c][1] = "connection"
          /\ close_frame[c] = NoClose

====
